---- MODULE Spec2Model ----
(***************************************************************************)
(* A model of src/mongo/MongoMcp.py: the module-level start-up of the MCP  *)
(* server (key pair, administrative token, token verifier) and the six     *)
(* tools it serves over one MongoDB collection.                            *)
(*                                                                         *)
(* Strings that the program only carries around are TLA+ strings.  Strings *)
(* that the program builds or takes apart are tuples: a PEM key is         *)
(* <<kind, k>> (k names the RSA key pair it belongs to), the empty string  *)
(* is << >>, an f-string is the tuple of its pieces.  A Python name that   *)
(* may be unbound is a sequence of length 0 or 1.                          *)
(***************************************************************************)
EXTENDS Integers, Sequences, FiniteSets, TLC

VARIABLES
    environ,       \* os.environ: the MCP_* variables that are set
    fs,            \* the working directory: path -> content of the files that exist
    collection,    \* db['ecommerce'] in natural order
    next_oid,      \* the ObjectId the store generates next
    now,           \* time.time()
    pc,            \* per process: where its start-up is
    keypair,       \* per process: the RSAKeyPair it holds
    client_token,  \* per process: the token minted at start-up
    auth,          \* per process: the JWTVerifier given to FastMCP
    io,            \* per process: the file operations its start-up performed
    last           \* the last tool call and its outcome

vars == <<environ, fs, collection, next_oid, now, pc, keypair, client_token,
          auth, io, last>>

-----------------------------------------------------------------------------
(* Bounds *)

NProcs == 2
NKeys == 2
MaxDays == 2
MaxOid == 2

Procs == 1..NProcs
MainProc == 1
KeyIds == 1..NKeys

\* A name that may be unbound, or a value that may be None
None == << >>
Some(v) == <<v>>

-----------------------------------------------------------------------------
(* Keys, key pairs and the persisted key record *)

EmptyStr == << >>

PrivatePem(k) == <<"PRIVATE KEY", k>>
PublicPem(k) == <<"PUBLIC KEY", k>>

SecretStr(s) == [secret |-> s]
get_secret_value(s) == s.secret

RSAKeyPair(private_key, public_key) ==
    [private_key |-> private_key, public_key |-> public_key]

\* RSAKeyPair.generate(): the two halves of the fresh key k
RSAKeyPair_generate(k) == RSAKeyPair(SecretStr(PrivatePem(k)), PublicPem(k))

keypair_file == "mcp_keypair.json"
token_path == "client_token.txt"
Paths == {keypair_file, token_path}

path_exists(path) == fs[path] # None

\* A faulty variant of json_dump_keypair: the public key is written to both members
json_dump_keypair_same_member(private_key_str, public_key_str) ==
    << <<"private_key", public_key_str>>, <<"public_key", public_key_str>> >>

\* json.dump of the two-member dict: the text, as its (name, value) members
json_dump_keypair(private_key_str, public_key_str) ==
    << <<"private_key", private_key_str>>, <<"public_key", public_key_str>> >>

\* json.load raises on a text that is empty; data[name] is the member `name`
json_loadable(text) ==
    /\ \E i \in 1..Len(text) : text[i][1] = "private_key"
    /\ \E i \in 1..Len(text) : text[i][1] = "public_key"

json_get(text, name) ==
    text[CHOOSE i \in 1..Len(text) : text[i][1] = name][2]

-----------------------------------------------------------------------------
(* The environment *)

\* os.environ.get(name) is truthy: the variable is set and not empty
EnvTruthy(name) == environ[name] # None /\ environ[name][1] # EmptyStr

PrivateEnvValues == {None, Some(EmptyStr), Some(PrivatePem(1))}
PublicEnvValues == {None, Some(EmptyStr)} \cup {Some(PublicPem(k)) : k \in KeyIds}

Environments ==
    [MCP_PRIVATE_KEY : PrivateEnvValues, MCP_PUBLIC_KEY : PublicEnvValues]

NoEnvironment == [MCP_PRIVATE_KEY |-> None, MCP_PUBLIC_KEY |-> None]

-----------------------------------------------------------------------------
(* Tokens *)

expiration_days_default == 365
SecondsPerDay == 24 * 60 * 60

Subject == "mongo-client"
Issuer == "mongo-mcp-server"
Audience == "mongo-mcp"

\* the lifetimes create_long_lived_token is tried with
ExpirationDays == (1..MaxDays) \cup {expiration_days_default}
\* the lifetimes of the tokens callers present: a day, or the default
BearerDays == {1, expiration_days_default}
Subjects == {Subject, "other-client"}
Issuers == {Issuer, "other-server"}
Audiences == {Audience, "other-mcp"}

\* the values time.time() takes: the start, and the last second and the
\* second after the last of each of these lifetimes
Instants ==
    {0} \cup {d * SecondsPerDay + o : d \in BearerDays, o \in {0, 1}}

\* RS256: a signature names the key that made it and what it signs
RS256_sign(private_pem, payload) == [key |-> private_pem[2], signed |-> payload]
RS256_verify(public_pem, payload, signature) ==
    /\ public_pem[1] = "PUBLIC KEY"
    /\ signature.key = public_pem[2]
    /\ signature.signed = payload

jwt_encode(payload, private_key) ==
    [header |-> [alg |-> "RS256", typ |-> "JWT"],
     payload |-> payload,
     signature |-> RS256_sign(private_key, payload)]

\* A faulty variant of create_long_lived_token: the lifetime counts hours, not days
create_long_lived_token_hours(kp, subject, issuer, audience, expiration_days, t) ==
    jwt_encode([sub |-> subject, iss |-> issuer, aud |-> audience, iat |-> t,
                exp |-> t + (expiration_days * 60 * 60)],
               get_secret_value(kp.private_key))

\* t is int(time.time())
create_long_lived_token(kp, subject, issuer, audience, expiration_days, t) ==
    jwt_encode([sub |-> subject, iss |-> issuer, aud |-> audience, iat |-> t,
                exp |-> t + (expiration_days * 24 * 60 * 60)],
               get_secret_value(kp.private_key))

JWTVerifier(public_key, issuer, audience) ==
    [public_key |-> public_key, issuer |-> issuer, audience |-> audience]

\* A faulty variant of JWTVerifier_verify: the audience is not compared
JWTVerifier_verify_any_audience(verifier, token, t) ==
    IF /\ token # None
       /\ RS256_verify(verifier.public_key, token[1].payload, token[1].signature)
       /\ ~(token[1].payload.exp < t)
       /\ token[1].payload.iss = verifier.issuer
    THEN Some([client_id |-> token[1].payload.sub, claims |-> token[1].payload])
    ELSE None

\* The verifier FastMCP calls on each request: the access token it grants to
\* the bearer token presented at time t, or None
JWTVerifier_verify(verifier, token, t) ==
    IF /\ token # None
       /\ RS256_verify(verifier.public_key, token[1].payload, token[1].signature)
       /\ ~(token[1].payload.exp < t)
       /\ token[1].payload.iss = verifier.issuer
       /\ token[1].payload.aud = verifier.audience
    THEN Some([client_id |-> token[1].payload.sub, claims |-> token[1].payload])
    ELSE None

-----------------------------------------------------------------------------
(* The document store: pymongo's Collection over db['ecommerce'] *)

ObjectId(n) == <<"ObjectId", n>>
\* str(ObjectId): the hexadecimal text of the identifier
str_oid(oid) == <<"hex", oid[2]>>

EmptyDoc == [k \in {} |-> 0]

WithField(doc, k, v) ==
    [x \in DOMAIN doc \cup {k} |-> IF x = k THEN v ELSE doc[x]]

\* doc['_id'] = str(doc['_id'])
stringify_id(doc) == WithField(doc, "_id", str_oid(doc["_id"]))

\* an equality filter: every field of the filter is in the document, with
\* the filter's value
Matches(doc, filtro) ==
    \A k \in DOMAIN filtro : k \in DOMAIN doc /\ doc[k] = filtro[k]

Matching(coll, filtro) == {i \in 1..Len(coll) : Matches(coll[i], filtro)}

FirstMatch(coll, filtro) ==
    CHOOSE i \in Matching(coll, filtro) : \A j \in Matching(coll, filtro) : i <= j

find(coll, filtro) ==
    LET RECURSIVE Keep(_)
        Keep(i) == IF i > Len(coll) THEN << >>
                   ELSE IF Matches(coll[i], filtro) THEN <<coll[i]>> \o Keep(i + 1)
                   ELSE Keep(i + 1)
    IN Keep(1)

find_one(coll, filtro) ==
    IF Matching(coll, filtro) = {} THEN None
    ELSE Some(coll[FirstMatch(coll, filtro)])

\* the store adds the _id it generates
insert_one(coll, oid, document) ==
    [collection |-> Append(coll, WithField(document, "_id", ObjectId(oid))),
     inserted_id |-> ObjectId(oid)]

delete_one(coll, filtro) ==
    IF Matching(coll, filtro) = {} THEN [collection |-> coll, deleted_count |-> 0]
    ELSE [collection |->
              SubSeq(coll, 1, FirstMatch(coll, filtro) - 1)
              \o SubSeq(coll, FirstMatch(coll, filtro) + 1, Len(coll)),
          deleted_count |-> 1]

\* A faulty variant of apply_set: the document is replaced by the new fields
apply_set_replace(doc, fields) ==
    [x \in {"_id"} \cup DOMAIN fields |-> IF x \in DOMAIN fields THEN fields[x] ELSE doc[x]]

\* {"$set": fields}: a field-level merge
apply_set(doc, fields) ==
    [x \in DOMAIN doc \cup DOMAIN fields |->
        IF x \in DOMAIN fields THEN fields[x] ELSE doc[x]]

update_one(coll, filtro, fields) ==
    IF Matching(coll, filtro) = {}
    THEN [collection |-> coll, matched_count |-> 0, modified_count |-> 0]
    ELSE LET i == FirstMatch(coll, filtro)
             new == apply_set(coll[i], fields)
         IN [collection |-> [coll EXCEPT ![i] = new],
             matched_count |-> 1,
             modified_count |-> IF new = coll[i] THEN 0 ELSE 1]

\* A faulty variant of count_documents: whether a document matches, not how many
count_documents_any(coll, filtro) ==
    IF Matching(coll, filtro) = {} THEN 0 ELSE 1

count_documents(coll, filtro) == Cardinality(Matching(coll, filtro))

-----------------------------------------------------------------------------
(* The tools.  Each gives the collection it leaves, the identifier the     *)
(* store generates next, the value it returns and the store calls it made. *)

Outcome(coll, oid, result, store_ops) ==
    [collection |-> coll, next_oid |-> oid, result |-> result, store_ops |-> store_ops]

\* the text of the source, without its accents
NotFoundMessage == "No se encontro ningun producto con el filtro: "

list_content(coll, oid) ==
    LET docs == find(coll, EmptyDoc)
    IN Outcome(coll, oid, [i \in 1..Len(docs) |-> stringify_id(docs[i])], <<"find">>)

filter_product(coll, oid, filtro) ==
    LET doc == find_one(coll, filtro)
    IN IF doc # None
       THEN Outcome(coll, oid, stringify_id(doc[1]), <<"find_one">>)
       ELSE Outcome(coll, oid,
                    [error |-> "Producto no encontrado", filtro |-> filtro],
                    <<"find_one">>)

insert_product(coll, oid, producto) ==
    LET result == insert_one(coll, oid, producto)
    IN Outcome(result.collection, oid + 1,
               <<"Producto insertado con ID: ", str_oid(result.inserted_id)>>,
               <<"insert_one">>)

\* A faulty variant of delete_product: the test is deleted_count >= 0
delete_product_always_deleted(coll, oid, filtro) ==
    LET result == delete_one(coll, filtro)
    IN Outcome(result.collection, oid, <<"Producto eliminado: ", filtro>>,
               <<"delete_one">>)

delete_product(coll, oid, filtro) ==
    LET result == delete_one(coll, filtro)
    IN IF result.deleted_count > 0
       THEN Outcome(result.collection, oid, <<"Producto eliminado: ", filtro>>,
                    <<"delete_one">>)
       ELSE Outcome(result.collection, oid, <<NotFoundMessage, filtro>>,
                    <<"delete_one">>)

update_product(coll, oid, filtro, actualizacion) ==
    LET result == update_one(coll, filtro, actualizacion)
    IN IF result.matched_count > 0
       THEN Outcome(result.collection, oid,
                    <<"Producto actualizado. Modificados: ", result.modified_count,
                      " campo(s)">>,
                    <<"update_one">>)
       ELSE Outcome(result.collection, oid, <<NotFoundMessage, filtro>>,
                    <<"update_one">>)

\* filtro is None or Some(filter)
count_products(coll, oid, filtro) ==
    LET f == IF filtro = None THEN EmptyDoc ELSE filtro[1]
    IN Outcome(coll, oid, count_documents(coll, f), <<"count_documents">>)

\* What callers send
IdProductos == {1, 2}
Nombres == {"X", "Y"}

Productos == [idProducto : IdProductos, nombre : Nombres]

Filtros ==
    {EmptyDoc}
    \cup {[idProducto |-> i] : i \in IdProductos}
    \cup {[nombre |-> n] : n \in Nombres}
    \cup [idProducto : IdProductos, nombre : Nombres]

Actualizaciones ==
    {[idProducto |-> i] : i \in IdProductos}
    \cup {[nombre |-> n] : n \in Nombres}
    \cup [idProducto : IdProductos, nombre : Nombres]

\* One of each, for the runs that are about the tokens
OneProducto == {[idProducto |-> 1, nombre |-> "X"]}
OneFiltro == {[idProducto |-> 1]}
OneActualizacion == {[nombre |-> "Y"]}

-----------------------------------------------------------------------------
(* Start-up: the module-level code, one process p at a time *)

Unbound == [p \in Procs |-> None]

NoCall ==
    [tool |-> "none", args |-> << >>, token |-> None, time |-> 0,
     status |-> "none", access |-> None, result |-> << >>, store_ops |-> << >>]

Init ==
    /\ environ = NoEnvironment
    /\ fs = [path \in Paths |-> None]
    /\ collection = << >>
    /\ next_oid = 0
    /\ now = 0
    /\ pc = [p \in Procs |-> "stopped"]
    /\ keypair = Unbound
    /\ client_token = Unbound
    /\ auth = Unbound
    /\ io = [p \in Procs |-> {}]
    /\ last = NoCall

\* The deployment sets the MCP_* variables before a process starts
Configure(env) ==
    /\ \A p \in Procs : pc[p] = "stopped"
    /\ env # environ
    /\ environ' = env
    /\ UNCHANGED <<fs, collection, next_oid, now, pc, keypair, client_token,
                   auth, io, last>>

\* A faulty variant of get_or_create_keypair: a lone injected secret is refused
get_or_create_keypair_strict(p) ==
    /\ pc[p] = "stopped"
    /\ IF EnvTruthy("MCP_PRIVATE_KEY") /\ EnvTruthy("MCP_PUBLIC_KEY")
       THEN /\ keypair' = [keypair EXCEPT ![p] =
                    Some(RSAKeyPair(SecretStr(environ["MCP_PRIVATE_KEY"][1]),
                                    environ["MCP_PUBLIC_KEY"][1]))]
            /\ pc' = [pc EXCEPT ![p] = "have_keypair"]
            /\ io' = io
       ELSE IF EnvTruthy("MCP_PRIVATE_KEY") \/ EnvTruthy("MCP_PUBLIC_KEY")
       THEN /\ pc' = [pc EXCEPT ![p] = "crashed"]
            /\ UNCHANGED <<keypair, io>>
       ELSE /\ io' = [io EXCEPT ![p] = @ \cup {"exists"}]
            /\ pc' = [pc EXCEPT ![p] =
                    IF path_exists(keypair_file) THEN "load" ELSE "generate"]
            /\ keypair' = keypair
    /\ UNCHANGED <<environ, fs, collection, next_oid, now, client_token, auth,
                   last>>

\* A faulty variant of get_or_create_keypair: the persisted record is looked for first
get_or_create_keypair_file_first(p) ==
    /\ pc[p] = "stopped"
    /\ IF path_exists(keypair_file)
       THEN /\ io' = [io EXCEPT ![p] = @ \cup {"exists"}]
            /\ pc' = [pc EXCEPT ![p] = "load"]
            /\ keypair' = keypair
       ELSE IF EnvTruthy("MCP_PRIVATE_KEY") /\ EnvTruthy("MCP_PUBLIC_KEY")
       THEN /\ keypair' = [keypair EXCEPT ![p] =
                    Some(RSAKeyPair(SecretStr(environ["MCP_PRIVATE_KEY"][1]),
                                    environ["MCP_PUBLIC_KEY"][1]))]
            /\ pc' = [pc EXCEPT ![p] = "have_keypair"]
            /\ io' = [io EXCEPT ![p] = @ \cup {"exists"}]
       ELSE /\ io' = [io EXCEPT ![p] = @ \cup {"exists"}]
            /\ pc' = [pc EXCEPT ![p] = "generate"]
            /\ keypair' = keypair
    /\ UNCHANGED <<environ, fs, collection, next_oid, now, client_token, auth,
                   last>>

\* get_or_create_keypair up to the test of os.path.exists: the injected pair,
\* or else where the persisted record sends it
get_or_create_keypair(p) ==
    /\ pc[p] = "stopped"
    /\ IF EnvTruthy("MCP_PRIVATE_KEY") /\ EnvTruthy("MCP_PUBLIC_KEY")
       THEN /\ keypair' = [keypair EXCEPT ![p] =
                    Some(RSAKeyPair(SecretStr(environ["MCP_PRIVATE_KEY"][1]),
                                    environ["MCP_PUBLIC_KEY"][1]))]
            /\ pc' = [pc EXCEPT ![p] = "have_keypair"]
            /\ io' = io
       ELSE /\ io' = [io EXCEPT ![p] = @ \cup {"exists"}]
            /\ pc' = [pc EXCEPT ![p] =
                    IF path_exists(keypair_file) THEN "load" ELSE "generate"]
            /\ keypair' = keypair
    /\ UNCHANGED <<environ, fs, collection, next_oid, now, client_token, auth,
                   last>>

\* open(keypair_file, 'r') and json.load: the pair of the record, or the
\* exception of json.load, which ends the process
get_or_create_keypair_load(p) ==
    /\ pc[p] = "load"
    /\ io' = [io EXCEPT ![p] = @ \cup {"read"}]
    /\ IF json_loadable(fs[keypair_file][1])
       THEN /\ keypair' = [keypair EXCEPT ![p] =
                    Some(RSAKeyPair(
                        SecretStr(json_get(fs[keypair_file][1], "private_key")),
                        json_get(fs[keypair_file][1], "public_key")))]
            /\ pc' = [pc EXCEPT ![p] = "have_keypair"]
       ELSE /\ keypair' = keypair
            /\ pc' = [pc EXCEPT ![p] = "crashed"]
    /\ UNCHANGED <<environ, fs, collection, next_oid, now, client_token, auth,
                   last>>

\* RSAKeyPair.generate(): any key
get_or_create_keypair_generate(p) ==
    /\ pc[p] = "generate"
    /\ \E k \in KeyIds : keypair' = [keypair EXCEPT ![p] = Some(RSAKeyPair_generate(k))]
    /\ pc' = [pc EXCEPT ![p] = "open_w"]
    /\ UNCHANGED <<environ, fs, collection, next_oid, now, client_token, auth,
                   io, last>>

\* open(keypair_file, 'w'): the file exists and is empty
get_or_create_keypair_open(p) ==
    /\ pc[p] = "open_w"
    /\ fs' = [fs EXCEPT ![keypair_file] = Some(EmptyStr)]
    /\ io' = [io EXCEPT ![p] = @ \cup {"write"}]
    /\ pc' = [pc EXCEPT ![p] = "dump"]
    /\ UNCHANGED <<environ, collection, next_oid, now, keypair, client_token,
                   auth, last>>

\* json.dump, and the end of the with block, which flushes the text
get_or_create_keypair_dump(p) ==
    /\ pc[p] = "dump"
    /\ fs' = [fs EXCEPT ![keypair_file] =
            Some(json_dump_keypair(get_secret_value(keypair[p][1].private_key),
                                   keypair[p][1].public_key))]
    /\ pc' = [pc EXCEPT ![p] = "have_keypair"]
    /\ UNCHANGED <<environ, collection, next_oid, now, keypair, client_token,
                   auth, io, last>>

\* The rest of the module: the administrative token, its file, the verifier,
\* and mcp.run
serve(p) ==
    /\ pc[p] = "have_keypair"
    /\ LET token == create_long_lived_token(keypair[p][1], Subject, Issuer, Audience,
                                            expiration_days_default, now)
       IN /\ client_token' = [client_token EXCEPT ![p] = Some(token)]
          /\ IF ~EnvTruthy("MCP_PRIVATE_KEY")
             THEN /\ fs' = [fs EXCEPT ![token_path] = Some(token)]
                  /\ io' = [io EXCEPT ![p] = @ \cup {"token_write"}]
             ELSE UNCHANGED <<fs, io>>
    /\ auth' = [auth EXCEPT ![p] =
            Some(JWTVerifier(keypair[p][1].public_key, Issuer, Audience))]
    /\ pc' = [pc EXCEPT ![p] = "serving"]
    /\ UNCHANGED <<environ, collection, next_oid, now, keypair, last>>

\* The process ends; the next start-up begins from nothing but the files
stop(p) ==
    /\ pc[p] \in {"serving", "crashed"}
    /\ pc' = [pc EXCEPT ![p] = "stopped"]
    /\ keypair' = [keypair EXCEPT ![p] = None]
    /\ client_token' = [client_token EXCEPT ![p] = None]
    /\ auth' = [auth EXCEPT ![p] = None]
    /\ io' = [io EXCEPT ![p] = {}]
    /\ UNCHANGED <<environ, fs, collection, next_oid, now, last>>

\* time.time() moves on
Tick ==
    /\ \E t \in Instants : t > now /\ now' = t
    /\ UNCHANGED <<environ, fs, collection, next_oid, pc, keypair, client_token,
                   auth, io, last>>

-----------------------------------------------------------------------------
(* Requests: FastMCP verifies the bearer token, then calls the tool *)

Tools ==
    {"list_content", "filter_product", "insert_product", "delete_product",
     "update_product", "count_products"}

\* The token client_token.txt holds, if the file exists
FileBearer == IF path_exists(token_path) THEN {fs[token_path]} ELSE {}

\* What a caller may present: nothing, the token of the file, or a token
\* somebody minted at time 0 with create_long_lived_token, for some key
AnyBearer ==
    {None} \cup FileBearer
    \cup {Some(create_long_lived_token(RSAKeyPair_generate(k), Subject, iss, aud, d, 0)) :
            k \in KeyIds, iss \in Issuers, aud \in Audiences, d \in BearerDays}

\* The verifier grants no access token: the request ends there
reject(p, bearers) ==
    /\ pc[p] = "serving"
    /\ \E tool \in Tools, bearer \in bearers :
        /\ JWTVerifier_verify(auth[p][1], bearer, now) = None
        /\ last' = [tool |-> tool, args |-> << >>, token |-> bearer, time |-> now,
                    status |-> "unauthorized", access |-> None, result |-> << >>,
                    store_ops |-> << >>]
    /\ UNCHANGED <<environ, fs, collection, next_oid, now, pc, keypair,
                   client_token, auth, io>>

\* The verifier grants an access token and the tool runs
respond(p, bearer, tool, args, out) ==
    /\ pc[p] = "serving"
    /\ JWTVerifier_verify(auth[p][1], bearer, now) # None
    /\ last' = [tool |-> tool, args |-> args, token |-> bearer, time |-> now,
                status |-> "ok",
                access |-> JWTVerifier_verify(auth[p][1], bearer, now),
                result |-> out.result, store_ops |-> out.store_ops]
    /\ collection' = out.collection
    /\ next_oid' = out.next_oid
    /\ UNCHANGED <<environ, fs, now, pc, keypair, client_token, auth, io>>

call_list_content(p, bearers) ==
    \E bearer \in bearers :
        respond(p, bearer, "list_content", << >>, list_content(collection, next_oid))

call_filter_product(p, bearers, filtros) ==
    \E bearer \in bearers, filtro \in filtros :
        respond(p, bearer, "filter_product", <<filtro>>,
                filter_product(collection, next_oid, filtro))

\* at most max_oid inserts
call_insert_product(p, bearers, productos, max_oid) ==
    /\ next_oid < max_oid
    /\ \E bearer \in bearers, producto \in productos :
        respond(p, bearer, "insert_product", <<producto>>,
                insert_product(collection, next_oid, producto))

call_delete_product(p, bearers, filtros) ==
    \E bearer \in bearers, filtro \in filtros :
        respond(p, bearer, "delete_product", <<filtro>>,
                delete_product(collection, next_oid, filtro))

call_update_product(p, bearers, filtros, actualizaciones) ==
    \E bearer \in bearers, filtro \in filtros, actualizacion \in actualizaciones :
        respond(p, bearer, "update_product", <<filtro, actualizacion>>,
                update_product(collection, next_oid, filtro, actualizacion))

call_count_products(p, bearers, filtros) ==
    \E bearer \in bearers, filtro \in filtros :
        respond(p, bearer, "count_products", <<filtro>>,
                count_products(collection, next_oid, filtro))

-----------------------------------------------------------------------------
(* Specifications *)

\* The server and its callers: one process with nothing injected, the clock,
\* callers presenting any token, one input of each kind and a collection of
\* at most one document
Next ==
    \/ get_or_create_keypair(MainProc)
    \/ get_or_create_keypair_generate(MainProc)
    \/ get_or_create_keypair_open(MainProc)
    \/ get_or_create_keypair_dump(MainProc)
    \/ serve(MainProc)
    \/ Tick
    \/ reject(MainProc, AnyBearer)
    \/ call_list_content(MainProc, AnyBearer)
    \/ call_filter_product(MainProc, AnyBearer, OneFiltro)
    \/ call_insert_product(MainProc, AnyBearer, OneProducto, 1)
    \/ call_delete_product(MainProc, AnyBearer, OneFiltro)
    \/ call_update_product(MainProc, AnyBearer, OneFiltro, OneActualizacion)
    \/ call_count_products(MainProc, AnyBearer, {None})

Spec == Init /\ [][Next]_vars

\* The tools: the caller holds the token of client_token.txt and sends any
\* product, filter and update
StoreNext ==
    \/ get_or_create_keypair(MainProc)
    \/ get_or_create_keypair_generate(MainProc)
    \/ get_or_create_keypair_open(MainProc)
    \/ get_or_create_keypair_dump(MainProc)
    \/ serve(MainProc)
    \/ call_list_content(MainProc, FileBearer)
    \/ call_filter_product(MainProc, FileBearer, Filtros)
    \/ call_insert_product(MainProc, FileBearer, Productos, MaxOid)
    \/ call_delete_product(MainProc, FileBearer, Filtros)
    \/ call_update_product(MainProc, FileBearer, Filtros, Actualizaciones)
    \/ call_count_products(MainProc, FileBearer, {None} \cup {Some(f) : f \in Filtros})

StoreSpec == Init /\ [][StoreNext]_vars

\* The signing identity: one process started and stopped again and again,
\* under any setting of the MCP_* variables
KeyNext ==
    \/ \E env \in Environments : Configure(env)
    \/ get_or_create_keypair(MainProc)
    \/ get_or_create_keypair_load(MainProc)
    \/ get_or_create_keypair_generate(MainProc)
    \/ get_or_create_keypair_open(MainProc)
    \/ get_or_create_keypair_dump(MainProc)
    \/ serve(MainProc)
    \/ stop(MainProc)

KeySpec == Init /\ [][KeyNext]_vars

\* Processes started side by side in one working directory, nothing injected
ConcNext ==
    \E p \in Procs :
        \/ get_or_create_keypair(p)
        \/ get_or_create_keypair_load(p)
        \/ get_or_create_keypair_generate(p)
        \/ get_or_create_keypair_open(p)
        \/ get_or_create_keypair_dump(p)
        \/ serve(p)

ConcSpec == Init /\ [][ConcNext]_vars

-----------------------------------------------------------------------------
(* What the claims speak of *)

BothInjected == EnvTruthy("MCP_PRIVATE_KEY") /\ EnvTruthy("MCP_PUBLIC_KEY")
NoneInjected == ~EnvTruthy("MCP_PRIVATE_KEY") /\ ~EnvTruthy("MCP_PUBLIC_KEY")
OneInjected == ~BothInjected /\ ~NoneInjected

\* get_or_create_keypair has returned in process p
HasKeypair(p) == pc[p] \in {"have_keypair", "serving"}

KeyFileOps == {"exists", "read", "write"}

\* The persisted record exists, parses, and holds the two halves of kp
RecordHolds(kp) ==
    /\ path_exists(keypair_file)
    /\ json_loadable(fs[keypair_file][1])
    /\ json_get(fs[keypair_file][1], "private_key") = get_secret_value(kp.private_key)
    /\ json_get(fs[keypair_file][1], "public_key") = kp.public_key

\* The last request ended at the verifier: no tool ran, no store call was made
Rejected ==
    /\ last.status = "unauthorized"
    /\ last.access = None
    /\ last.store_ops = << >>

\* C1: a tool runs and the store is reached only for a token the verifier
\* accepts; a request with no token, with a token signed by another key, with
\* a token whose exp is before the time of the request, with another issuer
\* or with another audience is rejected before any tool or store call.
C1_RejectedBeforeHandler ==
    last.tool # "none" =>
        /\ last.status = "ok" \/ Rejected
        /\ last.token = None => Rejected
        /\ last.token # None =>
            /\ last.token[1].signature.key # auth[MainProc][1].public_key[2] => Rejected
            /\ last.time > last.token[1].payload.exp => Rejected
            /\ last.token[1].payload.iss # Issuer => Rejected
            /\ last.token[1].payload.aud # Audience => Rejected

\* C1 witness: a call of insert_product rejected for a token that is expired
\* and in order otherwise
C1_Witness ==
    /\ last.tool = "insert_product"
    /\ Rejected
    /\ last.token # None
    /\ last.token[1].signature.key = auth[MainProc][1].public_key[2]
    /\ last.token[1].payload.iss = Issuer
    /\ last.token[1].payload.aud = Audience
    /\ last.time > last.token[1].payload.exp

\* C2: for any key, subject, issuer, audience and lifetime in days, the token
\* create_long_lived_token mints now is accepted by a verifier holding the
\* public half of the key and the same issuer and audience at every time
\* from now to before now + days * 86400, and the access token granted
\* carries the subject; and so is every such token a caller presented.
C2_MintThenVerify ==
    /\ \A k \in KeyIds, sub \in Subjects, iss \in Issuers, aud \in Audiences,
          d \in ExpirationDays, t \in Instants :
            (now <= t /\ t < now + d * 86400) =>
                LET token == create_long_lived_token(RSAKeyPair_generate(k), sub,
                                                     iss, aud, d, now)
                    access == JWTVerifier_verify(JWTVerifier(PublicPem(k), iss, aud),
                                                 Some(token), t)
                IN /\ access # None
                   /\ access[1].client_id = sub
                   /\ access[1].claims.sub = sub
    /\ (/\ last.tool # "none"
        /\ last.token # None
        /\ last.token[1].signature.key = auth[MainProc][1].public_key[2]
        /\ last.token[1].payload.iss = Issuer
        /\ last.token[1].payload.aud = Audience
        /\ last.time < last.token[1].payload.exp)
       => /\ last.status = "ok"
          /\ last.access # None
          /\ last.access[1].claims.sub = last.token[1].payload.sub

\* C2 witness: a token accepted a day and more after it was minted
C2_Witness ==
    /\ last.status = "ok"
    /\ last.token # None
    /\ last.time > last.token[1].payload.iat + 86400
    /\ last.time < last.token[1].payload.exp
    /\ last.access[1].claims.sub = Subject

\* C3: with both secrets injected, the pair get_or_create_keypair returns is
\* the injected one, the start-up neither tests, reads nor writes the
\* persisted record, and no step changes the record.
C3_InjectedPairUnchanged ==
    /\ [](\A p \in Procs : (BothInjected /\ HasKeypair(p)) =>
            /\ get_secret_value(keypair[p][1].private_key) = environ["MCP_PRIVATE_KEY"][1]
            /\ keypair[p][1].public_key = environ["MCP_PUBLIC_KEY"][1]
            /\ io[p] \cap KeyFileOps = {})
    /\ [][BothInjected => fs'[keypair_file] = fs[keypair_file]]_vars

\* C3 witness: serving with the injected pair while a persisted record holds
\* another public key
C3_Witness ==
    /\ pc[MainProc] = "serving"
    /\ BothInjected
    /\ path_exists(keypair_file)
    /\ json_loadable(fs[keypair_file][1])
    /\ json_get(fs[keypair_file][1], "public_key") # keypair[MainProc][1].public_key

\* C4: with nothing injected, the pair get_or_create_keypair returns is the
\* one the persisted record holds, the two halves of one key; and a record
\* that holds a pair is never written again.
C4_GeneratedPairIsReloaded ==
    /\ [](\A p \in Procs : (NoneInjected /\ HasKeypair(p)) =>
            /\ RecordHolds(keypair[p][1])
            /\ get_secret_value(keypair[p][1].private_key)[2] = keypair[p][1].public_key[2])
    /\ [][(path_exists(keypair_file) /\ json_loadable(fs[keypair_file][1]))
            => fs'[keypair_file] = fs[keypair_file]]_vars

\* C4 witness: a later start-up, with nothing injected, that read its pair
\* from the record an earlier one wrote
C4_Witness ==
    /\ pc[MainProc] = "have_keypair"
    /\ NoneInjected
    /\ io[MainProc] = {"exists", "read"}
    /\ RecordHolds(keypair[MainProc][1])

\* C5: a serving process wrote the token file if and only if its pair was
\* not injected.
C5_TokenWrittenIffNotInjected ==
    \A p \in Procs :
        pc[p] = "serving" => (("token_write" \in io[p]) <=> ~BothInjected)

\* C6, as claimed: with exactly one secret injected, get_or_create_keypair
\* returns no pair and the process never serves.
C6_LoneSecretRefused ==
    \A p \in Procs : OneInjected => ~HasKeypair(p)

\* C6, amended: with exactly one secret injected the start-up does not fail;
\* it tests for the persisted record and returns the pair the record holds.
C6_LoneSecretIgnored ==
    \A p \in Procs :
        OneInjected =>
            /\ pc[p] # "crashed"
            /\ HasKeypair(p) =>
                /\ "exists" \in io[p]
                /\ RecordHolds(keypair[p][1])

\* C6 witness: serving with only the private key injected
C6_Witness ==
    /\ pc[MainProc] = "serving"
    /\ EnvTruthy("MCP_PRIVATE_KEY")
    /\ ~EnvTruthy("MCP_PUBLIC_KEY")
    /\ RecordHolds(keypair[MainProc][1])

\* C10: at most one process writes the persisted record, and every process
\* holds the pair the record holds.
C10_SingleWriter ==
    /\ Cardinality({p \in Procs : "write" \in io[p]}) <= 1
    /\ \A p \in Procs : HasKeypair(p) => RecordHolds(keypair[p][1])

\* u gives d a value it does not have
Changes(d, u) == \E k \in DOMAIN u : k \notin DOMAIN d \/ d[k] # u[k]

\* u gives no field of f a value other than f's
KeepsMatch(f, u) == \A k \in DOMAIN u \cap DOMAIN f : u[k] = f[k]

NotFoundResult(f) == [error |-> "Producto no encontrado", filtro |-> f]

\* From coll: insert d, filter f, update f with u, filter f, delete f,
\* filter f, each giving what the end-to-end property says
EndToEnd(coll, oid, d, f, u) ==
    LET inserted == insert_product(coll, oid, d)
        found == filter_product(inserted.collection, inserted.next_oid, f)
        updated == update_product(inserted.collection, inserted.next_oid, f, u)
        shown == filter_product(updated.collection, updated.next_oid, f)
        deleted == delete_product(updated.collection, updated.next_oid, f)
        gone == filter_product(deleted.collection, deleted.next_oid, f)
    IN /\ inserted.result[2] = str_oid(ObjectId(oid))
       /\ DOMAIN found.result = DOMAIN d \cup {"_id"}
       /\ \A k \in DOMAIN d : found.result[k] = d[k]
       /\ found.result["_id"] = inserted.result[2]
       /\ updated.result = <<"Producto actualizado. Modificados: ", 1, " campo(s)">>
       /\ "error" \notin DOMAIN shown.result
       /\ \A k \in DOMAIN u : k \in DOMAIN shown.result /\ shown.result[k] = u[k]
       /\ deleted.result = <<"Producto eliminado: ", f>>
       /\ gone.result = NotFoundResult(f)

\* C7, as claimed: from any collection where nothing matches f, for any d
\* that matches f and any u that changes d, the six calls give the inserted
\* document with its _id as a string, a modified count of 1, the values of
\* u, the success of the delete, and the not-found result.
C7_EndToEnd ==
    \A d \in Productos, f \in Filtros, u \in Actualizaciones :
        (Matching(collection, f) = {} /\ Matches(d, f) /\ Changes(d, u))
            => EndToEnd(collection, next_oid, d, f, u)

\* C7, amended: the same, for the updates u that give no field of f a value
\* other than f's, so that the updated document still matches f.
C7_EndToEndKeepingMatch ==
    \A d \in Productos, f \in Filtros, u \in Actualizaciones :
        (Matching(collection, f) = {} /\ Matches(d, f) /\ Changes(d, u)
         /\ KeepsMatch(f, u))
            => EndToEnd(collection, next_oid, d, f, u)

\* C7 witness: an update by a filter it leaves matching modified the one
\* document that matches, among others
C7_Witness ==
    /\ last.tool = "update_product"
    /\ last.result = <<"Producto actualizado. Modificados: ", 1, " campo(s)">>
    /\ DOMAIN last.args[1] # {}
    /\ KeepsMatch(last.args[1], last.args[2])
    /\ Cardinality(Matching(collection, last.args[1])) = 1
    /\ Len(collection) > 1
    /\ Matches(collection[FirstMatch(collection, last.args[1])], last.args[2])

\* C8: count_products with no filter, or with the empty filter, gives the
\* length of what list_content returns.
C8_CountIsListLength ==
    /\ count_products(collection, next_oid, None).result
        = Len(list_content(collection, next_oid).result)
    /\ count_products(collection, next_oid, Some(EmptyDoc)).result
        = Len(list_content(collection, next_oid).result)
    /\ (last.tool = "count_products" /\ last.args[1] \in {None, Some(EmptyDoc)})
        => last.result = Len(list_content(collection, next_oid).result)

\* C8 witness: a count with no filter, after inserts and a delete, of a
\* collection that holds documents
C8_Witness ==
    /\ last.tool = "count_products"
    /\ last.args[1] = None
    /\ last.result = Len(collection)
    /\ Len(collection) > 0
    /\ next_oid > Len(collection)

\* C9: for a filter that matches nothing, filter_product returns the
\* not-found result with the filter, update_product and delete_product
\* return the not-found message with the filter, and the collection is as
\* it was.
C9_NotFoundIsAResult ==
    \A f \in Filtros :
        Matching(collection, f) = {} =>
            /\ filter_product(collection, next_oid, f).result = NotFoundResult(f)
            /\ filter_product(collection, next_oid, f).collection = collection
            /\ delete_product(collection, next_oid, f).result = <<NotFoundMessage, f>>
            /\ delete_product(collection, next_oid, f).collection = collection
            /\ \A u \in Actualizaciones :
                /\ update_product(collection, next_oid, f, u).result
                    = <<NotFoundMessage, f>>
                /\ update_product(collection, next_oid, f, u).collection = collection

\* C9 witness: a delete by a filter that matches none of the documents held
C9_Witness ==
    /\ last.tool = "delete_product"
    /\ last.result = <<NotFoundMessage, last.args[1]>>
    /\ Matching(collection, last.args[1]) = {}
    /\ Len(collection) > 0

====
